---- MODULE Spec2Model ----
(***************************************************************************)
(* A model of the Ukrainian stemmer of src/src/lib.rs (stem_word).         *)
(*                                                                         *)
(* A word is a sequence of characters.  TLA+ strings are ASCII, so every   *)
(* character of the source is written as an ASCII token:                   *)
(*   vowels      a e y o u ju ja i ji je  for  а е и о у ю я і ї є         *)
(*   others      v sh s soft yery j m kh h t l ch n k r z d                *)
(*               for  в ш с ь ы й м х г т л ч н к р з д                    *)
(*   folded      jo hard  for  ё ъ ;  apos  for ' ;  nl  for a line feed   *)
(*   uppercase   A JO HARD SOFT  for  А Ё Ъ Ь                              *)
(* The regex engine runs in UTF mode, so every offset it reports is on a   *)
(* character boundary: offsets are counted in characters here and         *)
(* converted to bytes by ByteLen.                                          *)
(***************************************************************************)
EXTENDS Integers, Sequences, FiniteSets, TLC

VARIABLES input, word, start, rv, pc, log, result, pass

vars == <<input, word, start, rv, pc, log, result, pass>>

\* ------------------------------------------------------------- bounds
MaxLen == 2
MaxPass == 2

\* ------------------------------------------------------------- characters
Vowels == {"a", "e", "y", "o", "u", "ju", "ja", "i", "ji", "je"}

Lowercase ==
  Vowels \cup {"v", "sh", "s", "soft", "yery", "j", "m", "kh", "h", "t", "l",
               "ch", "n", "k", "r", "z", "d", "jo", "hard"}

Uppercase == {"A", "JO", "HARD", "SOFT"}

\* The characters the exhaustive short inputs are built from: the vowels, the
\* letters the one- and two-character endings of the catalog are made of, a
\* letter of no pattern (к), the folded letters, the uppercase letters, the
\* apostrophe and the line feed.
Alphabet ==
  Vowels \cup {"v", "sh", "s", "soft", "yery", "j", "m", "kh", "n", "k", "jo", "hard"}
         \cup Uppercase \cup {"apos", "nl"}

\* UTF-8 width of a character: Cyrillic letters take two bytes, the ASCII
\* apostrophe and the line feed one.
Utf8Width(c) == IF c \in {"apos", "nl"} THEN 1 ELSE 2

RECURSIVE ByteLen(_)
ByteLen(w) == IF w = << >> THEN 0 ELSE Utf8Width(Head(w)) + ByteLen(Tail(w))

\* ------------------------------------------------------------- preprocessing
ToLowercaseChar(c) ==
  CASE c = "A" -> "a"
    [] c = "JO" -> "jo"
    [] c = "HARD" -> "hard"
    [] c = "SOFT" -> "soft"
    [] OTHER -> c

to_lowercase(w) == [i \in 1..Len(w) |-> ToLowercaseChar(w[i])]

\* str::replace(from, "") for a one-character pattern.
RECURSIVE Remove(_, _)
Remove(w, from) ==
  IF w = << >> THEN << >>
  ELSE IF Head(w) = from THEN Remove(Tail(w), from)
  ELSE <<Head(w)>> \o Remove(Tail(w), from)

\* str::replace(from, to) for one-character pattern and replacement.
Substitute(w, from, to) == [i \in 1..Len(w) |-> IF w[i] = from THEN to ELSE w[i]]

\* The four calls in another order: the letters are folded before the word is
\* lowercased.
ukstemmer_search_preprocess_LowerLast(w) ==
  to_lowercase(Substitute(Substitute(Remove(w, "apos"), "jo", "e"), "hard", "ji"))

ukstemmer_search_preprocess(w) ==
  Substitute(Substitute(Remove(to_lowercase(w), "apos"), "jo", "e"), "hard", "ji")

\* ------------------------------------------------------------- regex engine
\* Positions where PCRE2's $ holds (no MULTILINE, no DOLLAR_ENDONLY): the end
\* of the subject, and just before a line feed that is its last character.
DollarEnds(st) ==
  {Len(st)} \cup (IF Len(st) > 0 /\ st[Len(st)] = "nl" THEN {Len(st) - 1} ELSE {})

\* A pattern "(a1|a2|...)$": the ordered alternatives.
Alts(list) == [kind |-> "alts", alts |-> list]

Min(S) == CHOOSE x \in S : \A y \in S : x <= y

NoMatch == [found |-> FALSE, start |-> 0, end |-> 0]

\* Whether alternative alt, followed by $, matches st from offset i on.
AltMatchesAt(st, alt, i) ==
  /\ i >= 0
  /\ i + Len(alt) \in DollarEnds(st)
  /\ \A j \in 1..Len(alt) : st[i + j] = alt[j]

\* Regex::find for an alternation pattern: the leftmost start at which some
\* alternative matches, and there the first alternative in pattern order.
\* An alternative can only match at an offset that leaves it ending where $
\* holds.
Find(reg, st) ==
  LET hits == {h \in {<<e - Len(reg.alts[k]), k>> :
                        k \in 1..Len(reg.alts), e \in DollarEnds(st)} :
                 AltMatchesAt(st, reg.alts[h[2]], h[1])}
  IN IF hits = {} THEN NoMatch
     ELSE LET i == Min({h[1] : h \in hits})
              k == Min({h[2] : h \in {g \in hits : g[1] = i}})
          IN [found |-> TRUE, start |-> i, end |-> i + Len(reg.alts[k])]

\* ------------------------------------------------------------- pattern catalog
\* The last alternative of PERFECTIVEGROUND is "ывшись" followed by a
\* lookbehind for а or я and then one of в, вши, вшись.  The lookbehind reads
\* the last character of the literal before it.
PerfectiveGroundTail ==
  LET lit == <<"yery", "v", "sh", "y", "s", "soft">>
  IN IF lit[Len(lit)] \in {"a", "ja"}
     THEN << lit \o <<"v">>, lit \o <<"v", "sh", "y">>,
             lit \o <<"v", "sh", "y", "s", "soft">> >>
     ELSE << >>

PERFECTIVEGROUND ==
  Alts(<< <<"y", "v">>,
          <<"y", "v", "sh", "y">>,
          <<"y", "v", "sh", "y", "s", "soft">>,
          <<"yery", "v">>,
          <<"yery", "v", "sh", "y">> >> \o PerfectiveGroundTail)


\* REFLEXIVE without я in its character class.
REFLEXIVE_NoJa ==
  Alts(<< <<"s", "soft">>,
          <<"s", "y">> >>)

REFLEXIVE ==
  Alts(<< <<"s", "ja">>,
          <<"s", "soft">>,
          <<"s", "y">> >>)

ADJECTIVE ==
  Alts(<< <<"y", "m", "y">>,
          <<"i", "j">>,
          <<"y", "j">>,
          <<"a">>,
          <<"e">>,
          <<"o", "v", "a">>,
          <<"o", "v", "e">>,
          <<"i", "v">>,
          <<"je">>,
          <<"ji", "j">>,
          <<"je", "je">>,
          <<"e", "je">>,
          <<"ja">>,
          <<"i", "m">>,
          <<"e", "m">>,
          <<"y", "m">>,
          <<"i", "m">>,
          <<"y", "kh">>,
          <<"i", "kh">>,
          <<"o", "ju">>,
          <<"j", "m", "y">>,
          <<"i", "m", "y">>,
          <<"u">>,
          <<"ju">>,
          <<"o", "h", "o">>,
          <<"o", "m", "u">>,
          <<"o", "ji">> >>)

PARTICIPLE ==
  Alts(<< <<"y", "j">>,
          <<"o", "h", "o">>,
          <<"o", "m", "u">>,
          <<"y", "m">>,
          <<"i", "m">>,
          <<"a">>,
          <<"i", "j">>,
          <<"u">>,
          <<"o", "ju">>,
          <<"i", "j">>,
          <<"i">>,
          <<"y", "kh">>,
          <<"j", "m", "y">>,
          <<"y", "kh">> >>)

VERB ==
  Alts(<< <<"s", "soft">>,
          <<"s", "ja">>,
          <<"y", "v">>,
          <<"a", "t", "soft">>,
          <<"ja", "t", "soft">>,
          <<"u">>,
          <<"ju">>,
          <<"a", "v">>,
          <<"a", "l", "y">>,
          <<"u", "ch", "y">>,
          <<"ja", "ch", "y">>,
          <<"v", "sh", "y">>,
          <<"sh", "y">>,
          <<"e">>,
          <<"m", "e">>,
          <<"a", "t", "y">>,
          <<"ja", "t", "y">>,
          <<"je">> >>)

NOUN ==
  Alts(<< <<"a">>,
          <<"e", "v">>,
          <<"o", "v">>,
          <<"e">>,
          <<"ja", "m", "y">>,
          <<"a", "m", "y">>,
          <<"e", "y">>,
          <<"y">>,
          <<"e", "j">>,
          <<"o", "j">>,
          <<"y", "j">>,
          <<"j">>,
          <<"y", "ja", "m">>,
          <<"ja", "m">>,
          <<"y", "e", "m">>,
          <<"e", "m">>,
          <<"a", "m">>,
          <<"o", "m">>,
          <<"o">>,
          <<"u">>,
          <<"a", "kh">>,
          <<"y", "ja", "kh">>,
          <<"ja", "kh">>,
          <<"yery">>,
          <<"soft">>,
          <<"y", "ju">>,
          <<"soft", "ju">>,
          <<"ju">>,
          <<"y", "ja">>,
          <<"soft", "ja">>,
          <<"ja">>,
          <<"i">>,
          <<"o", "v", "i">>,
          <<"ji">>,
          <<"e", "ju">>,
          <<"je", "ju">>,
          <<"o", "ju">>,
          <<"je">>,
          <<"e", "v", "i">>,
          <<"e", "m">>,
          <<"je", "m">>,
          <<"i", "v">>,
          <<"ji", "v">>,
          <<"ju">> >>)

N1_RE == Alts(<< <<"y">> >>)

\* N2_RE without its leading о.
N2_RE_St == Alts(<< <<"s", "t", "soft">> >>)

N2_RE == Alts(<< <<"o", "s", "t", "soft">> >>)

N3_RE == Alts(<< <<"soft">> >>)

\* "ейше?": the greedy optional е is tried first.
N4_RE == Alts(<< <<"e", "j", "sh", "e">>, <<"e", "j", "sh">> >>)

N5_RE == Alts(<< <<"n", "n">> >>)

\* RVRE with ы in its character class.
RVRE_find_Yery(w) ==
  LET at == {i \in 1..Len(w) : w[i] \in Vowels \cup {"yery"}}
  IN IF at = {} THEN NoMatch
     ELSE [found |-> TRUE, start |-> Min(at) - 1, end |-> Min(at)]

\* RVRE, "[аеиоуюяіїє]": the end offset of the first vowel, 0 when there is none.
RVRE_find(w) ==
  LET at == {i \in 1..Len(w) : w[i] \in Vowels}
  IN IF at = {} THEN NoMatch
     ELSE [found |-> TRUE, start |-> Min(at) - 1, end |-> Min(at)]

\* DERIVATIONAL,
\*   [^V][V]+[^V]+[V].*(?<=о)сть?$
\* as a search anywhere in st.  The characters of st are numbered from 1:
\* i is the leading non-vowel, i+1..a the vowels, a+1..b the non-vowels, b+1 the
\* vowel, b+2..p what ".*" takes (any character but a line feed), p the
\* character the lookbehind reads and p+1.. the tail "ст" or "сть".
DerivationalTails == {<<"s", "t">>, <<"s", "t", "soft">>}

DERIVATIONAL_is_match(st) ==
  \E e \in DollarEnds(st), tail \in DerivationalTails :
    LET p == e - Len(tail)
    IN /\ p >= 1
       /\ SubSeq(st, p + 1, e) = tail
       /\ st[p] = "o"
       /\ \E i \in 1..p, a \in 1..p, b \in 1..p :
            /\ i + 1 <= a /\ a + 1 <= b /\ b + 1 <= p
            /\ st[i] \notin Vowels
            /\ \A x \in (i + 1)..a : st[x] \in Vowels
            /\ \A x \in (a + 1)..b : st[x] \notin Vowels
            /\ st[b + 1] \in Vowels
            /\ \A x \in (b + 2)..p : st[x] # "nl"

\* ------------------------------------------------------------- s and replace
replace(st, replacer, mstart, mend) ==
  SubSeq(st, 1, mstart) \o replacer \o SubSeq(st, mend + 1, Len(st))

\* s(st, reg, to, rv): the buffer rv after the call and the returned flag.
s(st, reg, to, buf) ==
  LET m == Find(reg, st)
      out == IF m.found THEN replace(st, to, m.start, m.end) ELSE buf
  IN [rv |-> out, changed |-> st # out, m |-> m]

\* ------------------------------------------------------------- inputs
RECURSIVE SeqsUpTo(_, _)
SeqsUpTo(S, n) ==
  IF n = 0 THEN {<< >>}
  ELSE LET shorter == SeqsUpTo(S, n - 1)
       IN shorter \cup {w \o <<c>> : w \in shorter, c \in S}

ShortWords == SeqsUpTo(Alphabet, MaxLen)

SeqRange(q) == {q[i] : i \in 1..Len(q)}

\* Every ending the catalog names, the derivational tail "ост", a line feed,
\* an apostrophe and the empty ending.
Endings ==
  UNION {SeqRange(reg.alts) : reg \in {PERFECTIVEGROUND, REFLEXIVE, ADJECTIVE,
                                        PARTICIPLE, VERB, NOUN, N1_RE, N2_RE,
                                        N3_RE, N4_RE, N5_RE}}
    \cup {<<"o", "s", "t">>, <<"nl">>, <<"apos">>, << >>}

Stems ==
  { <<"A", "k", "o", "k">>,                       \* Акок
    <<"r", "a", "n", "n">>,                       \* ранн
    <<"A", "k", "o", "k", "o", "s", "t", "soft">> }   \* Акокость

SuffixedWords == {st \o e1 \o e2 : st \in Stems, e1 \in Endings, e2 \in Endings}

Ruchkajetsja == <<"r", "u", "ch", "k", "a", "je", "t", "soft", "s", "ja">>

Zdorovja == <<"z", "d", "o", "r", "o", "v", "apos", "ja">>

Fixtures == {Ruchkajetsja, Zdorovja}

Inputs == ShortWords \cup SuffixedWords \cup Fixtures

\* ------------------------------------------------------------- stem_word
\* What one call of s did: its pattern, its arguments st and to, the buffer it
\* left, the flag it returned and the match it found.
Attempt(name, before, to, r) ==
  [pat |-> name, before |-> before, to |-> to, after |-> r.rv,
   changed |-> r.changed, found |-> r.m.found, mstart |-> r.m.start,
   mend |-> r.m.end]

Init ==
  /\ input \in Inputs
  /\ word = << >>
  /\ start = << >>
  /\ rv = << >>
  /\ pc = "preprocess"
  /\ log = << >>
  /\ result = << >>
  /\ pass = 1

Preprocess ==
  /\ pc = "preprocess"
  /\ word' = ukstemmer_search_preprocess(input)
  /\ pc' = "split"
  /\ UNCHANGED <<input, start, rv, log, result, pass>>

\* The split taken at the start of the match instead of its end.
SplitRV_AtMatchStart ==
  /\ pc = "split"
  /\ RVRE_find(word).found
  /\ LET m_start == RVRE_find(word).start
     IN /\ start' = SubSeq(word, 1, m_start)
        /\ rv' = SubSeq(word, m_start + 1, Len(word))
  /\ pc' = "perfectiveground"
  /\ UNCHANGED <<input, word, log, result, pass>>

\* if let Ok(Some(m)) = RVRE.find(word): Head and RV at the end of the match.
SplitRV ==
  /\ pc = "split"
  /\ RVRE_find(word).found
  /\ LET m_end == RVRE_find(word).end
     IN /\ start' = SubSeq(word, 1, m_end)
        /\ rv' = SubSeq(word, m_end + 1, Len(word))
  /\ pc' = "perfectiveground"
  /\ UNCHANGED <<input, word, log, result, pass>>

\* else { word }
NoVowel ==
  /\ pc = "split"
  /\ ~RVRE_find(word).found
  /\ result' = word
  /\ pc' = "done"
  /\ UNCHANGED <<input, word, start, rv, log, pass>>

\* One call s(&rv.clone(), reg, to, &mut rv); the next position is ifChanged
\* when it returns true and ifNot otherwise.
Call(name, reg, to, ifChanged, ifNot) ==
  LET r == s(rv, reg, to, rv)
  IN /\ rv' = r.rv
     /\ log' = Append(log, Attempt(name, rv, to, r))
     /\ pc' = IF r.changed THEN ifChanged ELSE ifNot
     /\ UNCHANGED <<input, word, start, result, pass>>

\* Step 1
TryPerfectiveGround ==
  /\ pc = "perfectiveground"
  /\ Call("PERFECTIVEGROUND", PERFECTIVEGROUND, << >>, "step2", "reflexive")

TryReflexive ==
  /\ pc = "reflexive"
  /\ Call("REFLEXIVE", REFLEXIVE, << >>, "adjective", "adjective")

\* The branch on ADJECTIVE's flag negated.
TryAdjective_Negated ==
  /\ pc = "adjective"
  /\ Call("ADJECTIVE", ADJECTIVE, << >>, "verb", "participle")

TryAdjective ==
  /\ pc = "adjective"
  /\ Call("ADJECTIVE", ADJECTIVE, << >>, "participle", "verb")

TryParticiple ==
  /\ pc = "participle"
  /\ Call("PARTICIPLE", PARTICIPLE, << >>, "step2", "step2")

\* The branch on VERB's flag negated: NOUN is attempted after VERB matched.
TryVerb_Negated ==
  /\ pc = "verb"
  /\ Call("VERB", VERB, << >>, "noun", "step2")

TryVerb ==
  /\ pc = "verb"
  /\ Call("VERB", VERB, << >>, "step2", "noun")

TryNoun ==
  /\ pc = "noun"
  /\ Call("NOUN", NOUN, << >>, "step2", "step2")

\* Step 2
Step2 ==
  /\ pc = "step2"
  /\ Call("N1", N1_RE, << >>, "step3", "step3")

\* Step 3
Step3Derivational ==
  /\ pc = "step3"
  /\ DERIVATIONAL_is_match(rv)
  /\ Call("N2", N2_RE, << >>, "step4", "step4")

Step3Skip ==
  /\ pc = "step3"
  /\ ~DERIVATIONAL_is_match(rv)
  /\ pc' = "step4"
  /\ UNCHANGED <<input, word, start, rv, log, result, pass>>

\* Step 4
\* The branch on N3's flag negated.
Step4SoftSign_Negated ==
  /\ pc = "step4"
  /\ Call("N3", N3_RE, << >>, "finish", "n4")

Step4SoftSign ==
  /\ pc = "step4"
  /\ Call("N3", N3_RE, << >>, "n4", "finish")

Step4Superlative ==
  /\ pc = "n4"
  /\ Call("N4", N4_RE, << >>, "n5", "n5")

\* The "нн" written back in front of the replacement.
Step4DoubleN_Tripled ==
  /\ pc = "n5"
  /\ Call("N5", N5_RE, <<"n", "n", "n">>, "finish", "finish")

Step4DoubleN ==
  /\ pc = "n5"
  /\ Call("N5", N5_RE, <<"n">>, "finish", "finish")

\* res = start ++ rv; as_str(res)
Finish ==
  /\ pc = "finish"
  /\ result' = start \o rv
  /\ pc' = "done"
  /\ UNCHANGED <<input, word, start, rv, log, pass>>

\* The caller stems the returned stem again.
Restem ==
  /\ pc = "done"
  /\ pass < MaxPass
  /\ input' = result
  /\ pass' = pass + 1
  /\ word' = << >>
  /\ start' = << >>
  /\ rv' = << >>
  /\ log' = << >>
  /\ result' = << >>
  /\ pc' = "preprocess"

Next ==
  \/ Preprocess
  \/ SplitRV
  \/ NoVowel
  \/ TryPerfectiveGround
  \/ TryReflexive
  \/ TryAdjective
  \/ TryParticiple
  \/ TryVerb
  \/ TryNoun
  \/ Step2
  \/ Step3Derivational
  \/ Step3Skip
  \/ Step4SoftSign
  \/ Step4Superlative
  \/ Step4DoubleN
  \/ Finish
  \/ Restem

Spec == Init /\ [][Next]_vars

\* ------------------------------------------------------------- properties
EndsWith(w, suf) ==
  Len(w) >= Len(suf) /\ SubSeq(w, Len(w) - Len(suf) + 1, Len(w)) = suf

DropLast(w, n) == SubSeq(w, 1, Len(w) - n)

HasVowel(w) == \E i \in 1..Len(w) : w[i] \in Vowels

\* The bytes of w up to and including its first vowel.
HeadOf(w) == SubSeq(w, 1, Min({i \in 1..Len(w) : w[i] \in Vowels}))

\* The RV of w: what follows its first vowel.
RVOf(w) == SubSeq(w, Len(HeadOf(w)) + 1, Len(w))

InPipeline == pc \notin {"preprocess", "split"} /\ HasVowel(word)

PastStep1 == pc \in {"step2", "step3", "step4", "n4", "n5", "finish", "done"}

Tried(name) == \E i \in 1..Len(log) : log[i].pat = name

Removed(name) == \E i \in 1..Len(log) : log[i].pat = name /\ log[i].changed

\* ------------------------------------------------------------- C1
RuchkajetStem == <<"r", "u", "ch", "k", "a", "je", "t">>

Step1Cascade == {"ADJECTIVE", "PARTICIPLE", "VERB", "NOUN"}

\* C1: stem_word preprocesses, splits at the end of the first vowel, runs
\* Steps 1-4 on RV and returns Head ++ RV.  When RV matches no
\* PERFECTIVEGROUND ending and ends in с followed by я, ь or и, REFLEXIVE
\* removes those two characters and ADJECTIVE (then PARTICIPLE, or VERB, or
\* NOUN) is applied to what remains; stem_word("ручкається") is "ручкаєт":
\* REFLEXIVE removes "ся", NOUN removes "ь", Steps 2-4 change nothing.
C1_ReflexiveThenCascade ==
  /\ (PastStep1 /\ InPipeline /\ ~log[1].changed
        /\ \E c \in {"ja", "soft", "y"} : EndsWith(RVOf(word), <<"s", c>>))
       => /\ log[1].pat = "PERFECTIVEGROUND"
          /\ log[2].pat = "REFLEXIVE"
          /\ log[2].before = RVOf(word)
          /\ log[2].after = DropLast(RVOf(word), 2)
          /\ log[3].pat = "ADJECTIVE"
          /\ log[3].before = DropLast(RVOf(word), 2)
          /\ \A i \in 4..Len(log) : log[i].pat \in Step1Cascade =>
               log[i].before = log[i - 1].after
  /\ (pc = "done" /\ pass = 1 /\ input = Ruchkajetsja)
       => /\ result = RuchkajetStem
          /\ [i \in 1..Len(log) |-> log[i].pat]
               = <<"PERFECTIVEGROUND", "REFLEXIVE", "ADJECTIVE", "VERB", "NOUN", "N1", "N3">>
          /\ [i \in 1..Len(log) |-> log[i].changed]
               = <<FALSE, TRUE, FALSE, FALSE, TRUE, FALSE, FALSE>>
          /\ log[2].after = <<"ch", "k", "a", "je", "t", "soft">>
          /\ log[5].after = <<"ch", "k", "a", "je", "t">>

C1_Witness ==
  /\ pc = "done" /\ pass = 1 /\ input = Ruchkajetsja
  /\ result = RuchkajetStem
  /\ Removed("REFLEXIVE") /\ Removed("NOUN")

\* ------------------------------------------------------------- C2
\* C2: when the preprocessed word holds no vowel (the empty word included),
\* stem_word returns exactly the preprocessed word and attempts no pattern.
C2_NoVowelUnchanged ==
  (pc = "done" /\ ~HasVowel(ukstemmer_search_preprocess(input)))
    => /\ result = ukstemmer_search_preprocess(input)
       /\ log = << >>

C2_Witness ==
  /\ pc = "done" /\ pass = 1
  /\ ~HasVowel(word)
  /\ input # word
  /\ EndsWith(word, <<"soft">>)
  /\ result = word

\* ------------------------------------------------------------- C3
\* C3: the byte length of the result is at most the byte length of the
\* preprocessed input, and no attempt of the pipeline lengthens the buffer.
C3_NeverLonger ==
  /\ \A i \in 1..Len(log) : ByteLen(log[i].after) <= ByteLen(log[i].before)
  /\ pc = "done" =>
       /\ ByteLen(result) >= 0
       /\ ByteLen(result) <= ByteLen(ukstemmer_search_preprocess(input))

C3_Witness ==
  /\ pc = "done"
  /\ Removed("N5")
  /\ ByteLen(result) < ByteLen(word)

\* ------------------------------------------------------------- C4
\* C4: when the preprocessed word holds a vowel, Head ++ RV is the
\* preprocessed word at the split, Head is the word up to and including its
\* first vowel, every attempt rewrites only the RV buffer, and the result
\* begins with Head.
C4_HeadUntouched ==
  InPipeline =>
    /\ start = HeadOf(word)
    /\ (pc = "perfectiveground") => (start \o rv = word)
    /\ (log # << >>) => (start \o log[1].before = word)
    /\ (pc = "done") =>
         /\ Len(result) >= Len(HeadOf(word))
         /\ SubSeq(result, 1, Len(HeadOf(word))) = HeadOf(word)
         /\ result = HeadOf(word) \o rv

C4_Witness ==
  /\ pc = "done"
  /\ HasVowel(word)
  /\ Len(HeadOf(word)) >= 2
  /\ result # word
  /\ SubSeq(result, 1, Len(HeadOf(word))) = HeadOf(word)

\* ------------------------------------------------------------- C5
Folded == Uppercase \cup {"apos", "jo", "hard"}

\* C5: preprocessing is idempotent and its result holds no uppercase letter,
\* no apostrophe, no ё and no ъ.
C5_PreprocessIdempotent ==
  (pc # "preprocess") =>
    /\ word = ukstemmer_search_preprocess(input)
    /\ ukstemmer_search_preprocess(word) = word
    /\ \A i \in 1..Len(word) :
         word[i] \notin Folded /\ word[i] \in Lowercase \cup {"nl"}

C5_Witness ==
  /\ pc = "split"
  /\ \E i \in 1..Len(input) : input[i] = "JO"
  /\ \E i \in 1..Len(input) : input[i] = "apos"
  /\ word = <<"e">>

\* ------------------------------------------------------------- C6
NNSoft == <<"n", "n", "soft">>

Step4Gated ==
  /\ \A i \in 1..Len(log) : log[i].pat \in {"N4", "N5"} =>
       \E j \in 1..(i - 1) : log[j].pat = "N3" /\ log[j].changed
  /\ (pc \in {"finish", "done"} /\ Removed("N3")) => (Tried("N4") /\ Tried("N5"))

\* C6 as stated: every word whose RV ends in "ннь" leaves stem_word with the
\* doubled н reduced to one н, and N4 and N5 are attempted only in a call
\* whose N3 changed the buffer.
C6_Original ==
  /\ (pc = "done" /\ HasVowel(word) /\ EndsWith(RVOf(word), NNSoft))
       => result = HeadOf(word) \o DropLast(RVOf(word), 2)
  /\ Step4Gated

\* C6 amended: every call whose buffer entering Step 4 ends in "ннь" has the ь
\* stripped by N3 and the "нн" replaced by "н" by N5, so that the result is
\* Head followed by that buffer without its last two characters; N4 and N5
\* are attempted exactly in the calls whose N3 changed the buffer.
C6_Step4Collapse ==
  /\ \A i \in 1..Len(log) :
       (log[i].pat = "N3" /\ EndsWith(log[i].before, NNSoft)) =>
         /\ log[i].changed
         /\ log[i].after = DropLast(log[i].before, 1)
         /\ pc \in {"finish", "done"} =>
              /\ Removed("N5")
              /\ rv = DropLast(log[i].before, 2)
         /\ pc = "done" => result = HeadOf(word) \o DropLast(log[i].before, 2)
  /\ Step4Gated

C6_Witness ==
  /\ pc = "done"
  /\ \E i \in 1..Len(log) : log[i].pat = "N3" /\ EndsWith(log[i].before, NNSoft)
  /\ Removed("N5")
  /\ EndsWith(result, <<"n">>)
  /\ ~EndsWith(result, <<"n", "n">>)

\* ------------------------------------------------------------- C7
Zdorov == <<"z", "d", "o", "r", "o", "v">>

\* C7: stem_word is not idempotent: "здоров", the stem stem_word returns for
\* "здоров'я", is shortened again when it is stemmed a second time.
C7_NotIdempotent ==
  /\ (pc = "done" /\ pass = 1 /\ input = Zdorovja) => result = Zdorov
  /\ (pc = "done" /\ pass = 2 /\ input = Zdorov)
       => ByteLen(result) < ByteLen(input)

C7_Witness ==
  /\ pc = "done" /\ pass = 2 /\ input = Zdorov
  /\ result = <<"z", "d", "o", "r">>

\* ------------------------------------------------------------- C8
Step1Pats == {"PERFECTIVEGROUND", "REFLEXIVE", "ADJECTIVE", "PARTICIPLE", "VERB", "NOUN"}

\* The attempt that follows attempt e of Step 1, as the claim orders them.
FollowsInStep1(e) ==
  CASE e.pat = "PERFECTIVEGROUND" -> IF e.changed THEN "N1" ELSE "REFLEXIVE"
    [] e.pat = "REFLEXIVE" -> "ADJECTIVE"
    [] e.pat = "ADJECTIVE" -> IF e.changed THEN "PARTICIPLE" ELSE "VERB"
    [] e.pat = "PARTICIPLE" -> "N1"
    [] e.pat = "VERB" -> IF e.changed THEN "N1" ELSE "NOUN"
    [] e.pat = "NOUN" -> "N1"

\* C8: within a call PERFECTIVEGROUND is attempted first and, when it changed
\* the buffer, no other Step 1 pattern is attempted; otherwise REFLEXIVE, then
\* ADJECTIVE; PARTICIPLE only after ADJECTIVE changed the buffer, VERB only
\* after it did not, NOUN only after neither ADJECTIVE nor VERB did.  At most
\* one of PERFECTIVEGROUND, ADJECTIVE, VERB, NOUN removes a suffix, and each
\* attempt reads the buffer the previous attempt left.
C8_Step1Order ==
  /\ (log # << >>) =>
       /\ log[1].pat = "PERFECTIVEGROUND"
       /\ log[1].before = RVOf(word)
  /\ \A i \in 2..Len(log) :
       /\ log[i].before = log[i - 1].after
       /\ log[i].pat # "PERFECTIVEGROUND"
       /\ log[i - 1].pat \in Step1Pats => log[i].pat = FollowsInStep1(log[i - 1])
       /\ log[i].pat \in Step1Pats => log[i - 1].pat \in Step1Pats
  /\ (InPipeline /\ PastStep1) => Tried("PERFECTIVEGROUND")
  /\ (InPipeline /\ pc = "done") => Tried("N1")
  /\ Cardinality({i \in 1..Len(log) :
                    /\ log[i].pat \in {"PERFECTIVEGROUND", "ADJECTIVE", "VERB", "NOUN"}
                    /\ log[i].changed}) <= 1

C8_Witness ==
  /\ pc = "done"
  /\ Removed("REFLEXIVE")
  /\ Removed("ADJECTIVE")
  /\ Tried("PARTICIPLE")
  /\ ~Tried("VERB")
  /\ ~Tried("NOUN")

\* ------------------------------------------------------------- C9
Ost == <<"o", "s", "t", "soft">>

\* The buffer st without a final "ость", or without the "ость" that stands
\* before its final line feed; st itself when it ends in neither.
WithoutOst(st) ==
  IF EndsWith(st, Ost) THEN DropLast(st, 4)
  ELSE IF EndsWith(st, Ost \o <<"nl">>) THEN DropLast(st, 5) \o <<"nl">>
  ELSE st

\* C9 as stated: Step 3 changes the buffer only if the buffer Step 2 left
\* matches DERIVATIONAL, and whenever it matches, a suffix is stripped.
C9_Original ==
  [][pc = "step3" =>
       /\ (rv' # rv) => DERIVATIONAL_is_match(rv)
       /\ DERIVATIONAL_is_match(rv) => (rv' # rv /\ Len(rv') < Len(rv))]_vars

\* C9 amended: Step 3 changes the buffer only if the buffer Step 2 left
\* matches DERIVATIONAL; a matching buffer that ends in "ость" (or in "ость"
\* and a final line feed) loses that whole "ость", and a matching buffer that
\* ends in "ост" without the soft sign is left as it is.
C9_Step3 ==
  [][pc = "step3" =>
       /\ (rv' # rv) => DERIVATIONAL_is_match(rv)
       /\ DERIVATIONAL_is_match(rv) => rv' = WithoutOst(rv)
       /\ pc' = "step4"]_vars

C9_Witness ==
  /\ pc = "step4"
  /\ Removed("N2")
  /\ \E i \in 1..Len(log) :
       /\ log[i].pat = "N2"
       /\ EndsWith(log[i].before, Ost)
       /\ log[i].after = DropLast(log[i].before, 4)
       /\ rv = log[i].after

\* ------------------------------------------------------------- C10
\* C10 as stated: s leaves the buffer unchanged and returns false when the
\* pattern does not match; when it matches at [start, end) the buffer becomes
\* st[..start] ++ to ++ st[end..] and the flag tells whether the content
\* changed; and for every catalog pattern end is the buffer length, so that a
\* successful attempt truncates the matched suffix and appends the replacement.
C10_Original ==
  \A i \in 1..Len(log) :
    LET e == log[i]
    IN /\ ~e.found => (e.after = e.before /\ ~e.changed)
       /\ e.found =>
            /\ e.after = SubSeq(e.before, 1, e.mstart) \o e.to
                           \o SubSeq(e.before, e.mend + 1, Len(e.before))
            /\ e.changed = (e.after # e.before)
            /\ e.mend = Len(e.before)
            /\ e.after = DropLast(e.before, e.mend - e.mstart) \o e.to

\* C10 without its last sentence: what s does for a match at [start, end),
\* where end is a position at which $ holds.
C10_MatchAndReplace ==
  \A i \in 1..Len(log) :
    LET e == log[i]
    IN /\ ~e.found => (e.after = e.before /\ ~e.changed)
       /\ e.found =>
            /\ e.after = SubSeq(e.before, 1, e.mstart) \o e.to
                           \o SubSeq(e.before, e.mend + 1, Len(e.before))
            /\ e.changed = (e.after # e.before)
            /\ e.mend \in DollarEnds(e.before)

====
